---- MODULE Spec2Model ----
(***************************************************************************)
(* Model of hack1.py: the microphone callback, the global audio_queue, the *)
(* AudioProcessingThread worker (run / generate_summary / stop) and the    *)
(* two session handlers of MeetingSummarizerApp (start_recording and      *)
(* stop_recording).                                                        *)
(*                                                                         *)
(* Text is a sequence of tokens: a token is either one whole word or the   *)
(* single space " ".  The recognizer's segment texts are sequences of     *)
(* words; JoinSp renders them with single spaces, as vosk does.            *)
(*                                                                         *)
(* The widgets (transcription_output, summary_output, ...) and the         *)
(* translate / read / download handlers are not part of the model: they   *)
(* only display text that has already been emitted.  An exception that     *)
(* leaves a handler or a thread is recorded (lastCall.result, pc =         *)
(* "raised"); what Qt does with it afterwards (print and go on, or abort   *)
(* the process) is not in the source, and every property below is a        *)
(* property of the behaviour up to that point.                             *)
(***************************************************************************)
EXTENDS Integers, Sequences, FiniteSets, TLC

\* Bounds of the model.
MaxFrames == 2      \* blocks the audio driver delivers in one behaviour
MaxStarts == 2      \* start_recording invocations in one behaviour

\* hack1.py:60, the word threshold of generate_summary.
MinWords == 10

\* Texts recognizer.Result() can carry at an utterance boundary (hack1.py:51-52);
\* the empty one is result.get("text", "") of a silent utterance.
SegTexts ==
    { <<>>,
      <<"hello", "world">>,
      <<"the", "quick", "brown", "fox", "jumps">> }

VARIABLES
    audio_queue,    \* hack1.py:27, the module-level queue.Queue(): frames, oldest first
    streams,        \* every sd.RawInputStream ever created: "active", "opened", "closed"
    stream,         \* self.stream: index into streams, 0 while the attribute does not exist
    threads,        \* every AudioProcessingThread ever created
    audio_thread,   \* self.audio_thread: index into threads, 0 while the attribute does not exist
    gui,            \* the GUI thread: "idle" (in the event loop) or "wait" (inside audio_thread.wait())
    pushed,         \* history: frames in the order callback put them on the queue
    fed,            \* history: frames in the order they were given to AcceptWaveform
    emitted,        \* history: signals in the order they were emitted
    lastCall        \* history: the last handler invocation and how it ended

vars == <<audio_queue, streams, stream, threads, audio_thread, gui,
          pushed, fed, emitted, lastCall>>

----------------------------------------------------------------------------
\* Text helpers.

RECURSIVE JoinSp(_)
\* " ".join(words)
JoinSp(ws) ==
    IF ws = <<>> THEN <<>>
    ELSE IF Len(ws) = 1 THEN ws
    ELSE <<Head(ws), " ">> \o JoinSp(Tail(ws))

\* str.split(): the maximal runs of non-whitespace.  Word tokens are never
\* adjacent in a transcript (every segment is JoinSp of its words and is
\* followed by " "), so each non-space token is one run.
split(text) == SelectSeq(text, LAMBDA t : t # " ")

Label == <<"Summary:", " ">>

Sentinel ==
    Label \o <<"Not", " ", "enough", " ", "data", " ", "for", " ", "summarization.">>

\* hack1.py:63-66.  The recognizer emits no punctuation, so the sentence
\* tokenizer sees the transcript as one sentence, which is all the summarizer
\* can select; str(sentence) is that sentence.
Extract(text) == JoinSp(split(text))

\* The threshold compared with <= instead of <.
generate_summary_inclusive(text) ==
    IF Len(split(text)) <= MinWords
    THEN Sentinel
    ELSE Label \o Extract(text)

\* hack1.py:59-67
generate_summary(text) ==
    IF Len(split(text)) < MinWords
    THEN Sentinel
    ELSE Label \o Extract(text)

\* The transcript overwritten instead of extended: transcription = text + " "
AppendSegment_overwrites(transcription, text) == JoinSp(text) \o <<" ">>

\* The separator forgotten: transcription += text
AppendSegment_no_separator(transcription, text) == transcription \o JoinSp(text)

\* hack1.py:53, transcription += text + " "
AppendSegment(transcription, text) == transcription \o JoinSp(text) \o <<" ">>

----------------------------------------------------------------------------
\* State helpers.

\* The transcript kept across sessions (an attribute that outlives run): a
\* new thread starts from the transcript of the one made before it.
NewThread_keeps_transcript ==
    [ recording     |-> TRUE,
      pc            |-> "while",
      data          |-> 0,
      transcription |-> IF threads = <<>> THEN <<>>
                        ELSE threads[Len(threads)].transcription,
      utterance     |-> <<>>,
      segments      |-> <<>>,
      latePops      |-> 0,
      lateSignals   |-> 0 ]

\* hack1.py:39-46: a thread as start_recording creates and starts it; run
\* has made its recognizer and its empty transcription.
NewThread ==
    [ recording     |-> TRUE,
      pc            |-> "while",
      data          |-> 0,
      transcription |-> <<>>,
      utterance     |-> <<>>,     \* frames the recognizer holds since the last boundary
      segments      |-> <<>>,     \* history: the texts of the boundaries, in order
      latePops      |-> 0,        \* history: frames popped after stop() cleared recording
      lateSignals   |-> 0 ]       \* history: transcription signals emitted after that

\* QThread.isRunning(): started and run() has not returned or raised.
isRunning(w) == threads[w].pc \notin {"finished", "raised"}

Workers == 1 .. Len(threads)

OpenStreams == { s \in 1 .. Len(streams) : streams[s] # "closed" }

\* The open streams that are started: the driver calls callback for these.
CapturingStreams == { s \in 1 .. Len(streams) : streams[s] = "active" }

RunningWorkers == { w \in Workers : isRunning(w) }

\* A session as the handlers see it: the current stream is open and capturing
\* and the current worker is running.
SessionActive ==
    /\ stream # 0
    /\ streams[stream] = "active"
    /\ audio_thread # 0
    /\ isRunning(audio_thread)

\* No session: nothing was ever started, or the current stream is closed and
\* the current worker (if any) has ended.
SessionIdle ==
    \/ stream = 0 /\ audio_thread = 0
    \/ /\ stream # 0
       /\ streams[stream] = "closed"
       /\ audio_thread # 0 => ~isRunning(audio_thread)

Call(op, active, idle, result) ==
    [ op |-> op, active |-> active, idle |-> idle, result |-> result ]

----------------------------------------------------------------------------
Init ==
    /\ audio_queue = <<>>
    /\ streams = <<>>
    /\ stream = 0
    /\ threads = <<>>
    /\ audio_thread = 0
    /\ gui = "idle"
    /\ pushed = <<>>
    /\ fed = <<>>
    /\ emitted = <<>>
    /\ lastCall = Call("none", FALSE, TRUE, "returned")

----------------------------------------------------------------------------
\* A queue made with maxsize=1: put() makes the driver wait while it is full.
callback_bounded_queue(s, status) ==
    /\ streams[s] = "active"
    /\ Len(pushed) < MaxFrames
    /\ status \in BOOLEAN
    /\ Len(audio_queue) < 1
    /\ audio_queue' = Append(audio_queue, Len(pushed) + 1)
    /\ pushed' = Append(pushed, Len(pushed) + 1)
    /\ UNCHANGED <<streams, stream, threads, audio_thread, gui, fed, emitted, lastCall>>

\* hack1.py:29-32.  The driver calls it for every stream that is started and
\* not yet stopped; a frame is named by its position in the capture order.
callback(s, status) ==
    /\ streams[s] = "active"
    /\ Len(pushed) < MaxFrames
    /\ status \in BOOLEAN           \* only printed to stderr
    /\ audio_queue' = Append(audio_queue, Len(pushed) + 1)
    /\ pushed' = Append(pushed, Len(pushed) + 1)
    /\ UNCHANGED <<streams, stream, threads, audio_thread, gui, fed, emitted, lastCall>>

----------------------------------------------------------------------------
\* AudioProcessingThread.run, one shared-memory access per step.

\* Drain-to-empty: the loop goes on while frames are queued.
RunWhile_drains(w) ==
    /\ threads[w].pc = "while"
    /\ threads' = [threads EXCEPT ![w].pc =
                      IF threads[w].recording \/ audio_queue # <<>>
                      THEN "empty" ELSE "summary"]
    /\ UNCHANGED <<audio_queue, streams, stream, audio_thread, gui,
                   pushed, fed, emitted, lastCall>>

\* hack1.py:47, while self.recording
RunWhile(w) ==
    /\ threads[w].pc = "while"
    /\ threads' = [threads EXCEPT ![w].pc =
                      IF threads[w].recording THEN "empty" ELSE "summary"]
    /\ UNCHANGED <<audio_queue, streams, stream, audio_thread, gui,
                   pushed, fed, emitted, lastCall>>

\* hack1.py:48, if not audio_queue.empty()
RunEmpty(w) ==
    /\ threads[w].pc = "empty"
    /\ threads' = [threads EXCEPT ![w].pc =
                      IF audio_queue # <<>> THEN "get" ELSE "while"]
    /\ UNCHANGED <<audio_queue, streams, stream, audio_thread, gui,
                   pushed, fed, emitted, lastCall>>

\* hack1.py:49, data = audio_queue.get(): blocks while the queue is empty
RunGet(w) ==
    /\ threads[w].pc = "get"
    /\ audio_queue # <<>>
    /\ threads' = [threads EXCEPT
                      ![w].pc = "accept",
                      ![w].data = Head(audio_queue),
                      ![w].latePops = IF threads[w].recording THEN @ ELSE @ + 1]
    /\ audio_queue' = Tail(audio_queue)
    /\ UNCHANGED <<streams, stream, audio_thread, gui, pushed, fed, emitted, lastCall>>

\* The unfinished utterance shown too: the transcript is emitted although no
\* boundary was reached.
RunAcceptPartial_emits(w) ==
    /\ threads[w].pc = "accept"
    /\ threads' = [threads EXCEPT
                      ![w].pc = "while",
                      ![w].data = 0,
                      ![w].utterance = Append(@, threads[w].data)]
    /\ fed' = Append(fed, [w |-> w, f |-> threads[w].data])
    /\ emitted' = Append(emitted,
                     [ w      |-> w,
                       signal |-> "transcription_signal",
                       text   |-> threads[w].transcription,
                       frames |-> <<>> ])
    /\ UNCHANGED <<audio_queue, streams, stream, audio_thread, gui, pushed, lastCall>>

\* hack1.py:50, AcceptWaveform(data) returns false: no boundary yet
RunAcceptPartial(w) ==
    /\ threads[w].pc = "accept"
    /\ threads' = [threads EXCEPT
                      ![w].pc = "while",
                      ![w].data = 0,
                      ![w].utterance = Append(@, threads[w].data)]
    /\ fed' = Append(fed, [w |-> w, f |-> threads[w].data])
    /\ UNCHANGED <<audio_queue, streams, stream, audio_thread, gui,
                   pushed, emitted, lastCall>>

\* hack1.py:50-54, AcceptWaveform(data) returns true: the utterance is final
RunAcceptBoundary(w, text) ==
    /\ threads[w].pc = "accept"
    /\ LET t == AppendSegment(threads[w].transcription, text)
       IN  /\ threads' = [threads EXCEPT
                             ![w].pc = "while",
                             ![w].data = 0,
                             ![w].utterance = <<>>,
                             ![w].transcription = t,
                             ![w].segments = Append(@, text),
                             ![w].lateSignals =
                                 IF threads[w].recording THEN @ ELSE @ + 1]
           /\ emitted' = Append(emitted,
                            [ w      |-> w,
                              signal |-> "transcription_signal",
                              text   |-> t,
                              frames |-> Append(threads[w].utterance, threads[w].data) ])
    /\ fed' = Append(fed, [w |-> w, f |-> threads[w].data])
    /\ UNCHANGED <<audio_queue, streams, stream, audio_thread, gui, pushed, lastCall>>

\* hack1.py:50, AcceptWaveform(data) raises: nothing in run catches it, the
\* thread ends without reaching line 56
RunAcceptRaises(w) ==
    /\ threads[w].pc = "accept"
    /\ threads' = [threads EXCEPT ![w].pc = "raised", ![w].data = 0]
    /\ fed' = Append(fed, [w |-> w, f |-> threads[w].data])
    /\ UNCHANGED <<audio_queue, streams, stream, audio_thread, gui,
                   pushed, emitted, lastCall>>

\* hack1.py:56-57
RunSummary(w) ==
    /\ threads[w].pc = "summary"
    /\ threads' = [threads EXCEPT ![w].pc = "finished"]
    /\ emitted' = Append(emitted,
                     [ w      |-> w,
                       signal |-> "summary_signal",
                       text   |-> generate_summary(threads[w].transcription),
                       frames |-> <<>> ])
    /\ UNCHANGED <<audio_queue, streams, stream, audio_thread, gui, pushed, fed, lastCall>>

----------------------------------------------------------------------------
\* MeetingSummarizerApp handlers; they run on the GUI thread, one at a time.

\* hack1.py:138-145, every call succeeds
start_recording ==
    /\ gui = "idle"
    /\ Len(streams) < MaxStarts
    /\ streams' = Append(streams, "active")
    /\ stream' = Len(streams) + 1
    /\ threads' = Append(threads, NewThread)
    /\ audio_thread' = Len(threads) + 1
    /\ lastCall' = Call("start", SessionActive, SessionIdle, "returned")
    /\ UNCHANGED <<audio_queue, gui, pushed, fed, emitted>>

\* hack1.py:140, sd.RawInputStream(...) raises: nothing is assigned
start_recording_open_fails ==
    /\ gui = "idle"
    /\ Len(streams) < MaxStarts
    /\ lastCall' = Call("start", SessionActive, SessionIdle, "PortAudioError")
    /\ UNCHANGED <<audio_queue, streams, stream, threads, audio_thread, gui,
                   pushed, fed, emitted>>

\* hack1.py:141, self.stream.start() raises: self.stream is the new, opened
\* stream; no thread is made
start_recording_start_fails ==
    /\ gui = "idle"
    /\ Len(streams) < MaxStarts
    /\ streams' = Append(streams, "opened")
    /\ stream' = Len(streams) + 1
    /\ lastCall' = Call("start", SessionActive, SessionIdle, "PortAudioError")
    /\ UNCHANGED <<audio_queue, threads, audio_thread, gui, pushed, fed, emitted>>

\* hack1.py:148, self.stream does not exist
stop_recording_no_stream ==
    /\ gui = "idle"
    /\ stream = 0
    /\ lastCall' = Call("stop", SessionActive, SessionIdle, "AttributeError")
    /\ UNCHANGED <<audio_queue, streams, stream, threads, audio_thread, gui,
                   pushed, fed, emitted>>

\* hack1.py:148-149 on a stream that was closed before: the calls reach
\* PortAudio with a released stream; this is the outcome where they fault
stop_recording_closed_faults ==
    /\ gui = "idle"
    /\ stream # 0
    /\ streams[stream] = "closed"
    /\ lastCall' = Call("stop", SessionActive, SessionIdle, "PortAudioError")
    /\ UNCHANGED <<audio_queue, streams, stream, threads, audio_thread, gui,
                   pushed, fed, emitted>>

\* hack1.py:148-153 up to the point where the handler blocks or returns
\* (on a closed stream: the outcome where stop() and close() return)
stop_recording ==
    /\ gui = "idle"
    /\ stream # 0
    /\ streams' = [streams EXCEPT ![stream] = "closed"]
    /\ IF audio_thread # 0 /\ isRunning(audio_thread)
       THEN /\ threads' = [threads EXCEPT ![audio_thread].recording = FALSE]  \* hack1.py:69-70
            /\ gui' = "wait"
            /\ lastCall' = Call("stop", SessionActive, SessionIdle, "waiting")
       ELSE /\ lastCall' = Call("stop", SessionActive, SessionIdle, "returned")
            /\ UNCHANGED <<threads, gui>>
    /\ UNCHANGED <<audio_queue, stream, audio_thread, pushed, fed, emitted>>

\* hack1.py:153, audio_thread.wait() returns once run has ended
stop_recording_returns ==
    /\ gui = "wait"
    /\ ~isRunning(audio_thread)
    /\ gui' = "idle"
    /\ lastCall' = [lastCall EXCEPT !.result = "returned"]
    /\ UNCHANGED <<audio_queue, streams, stream, threads, audio_thread,
                   pushed, fed, emitted>>

----------------------------------------------------------------------------
Driver == \E s \in 1 .. Len(streams) : \E status \in BOOLEAN : callback(s, status)

WorkerStep(w) ==
    \/ RunWhile(w)
    \/ RunEmpty(w)
    \/ RunGet(w)
    \/ RunAcceptPartial(w)
    \/ \E text \in SegTexts : RunAcceptBoundary(w, text)
    \/ RunAcceptRaises(w)
    \/ RunSummary(w)

Next ==
    \/ Driver
    \/ \E w \in Workers : WorkerStep(w)
    \/ start_recording
    \/ start_recording_open_fails
    \/ start_recording_start_fails
    \/ stop_recording_no_stream
    \/ stop_recording_closed_faults
    \/ stop_recording
    \/ stop_recording_returns

Spec == Init /\ [][Next]_vars

\* The scheduler runs every thread that can take a step; the driver is under
\* no obligation to deliver another block.
FairSpec ==
    /\ Spec
    /\ \A w \in 1 .. MaxStarts : WF_vars(w \in Workers /\ WorkerStep(w))
    /\ WF_vars(stop_recording_returns)

----------------------------------------------------------------------------
\* Views of the histories.

\* The signals thread w has emitted, in order.
SignalsOf(w) == SelectSeq(emitted, LAMBDA e : e.w = w)

TranscriptionsOf(w) ==
    SelectSeq(emitted, LAMBDA e : e.w = w /\ e.signal = "transcription_signal")

SummariesOf(w) ==
    SelectSeq(emitted, LAMBDA e : e.w = w /\ e.signal = "summary_signal")

RECURSIVE WordCount(_)
\* The number of words in a sequence of segment texts.
WordCount(segs) ==
    IF segs = <<>> THEN 0 ELSE Len(Head(segs)) + WordCount(Tail(segs))

RECURSIVE Concatenated(_, _)
\* s1 + " " + s2 + " " + ... + sk + " " for the first k segment texts.
Concatenated(segs, k) ==
    IF k = 0 THEN <<>>
    ELSE Concatenated(segs, k - 1) \o JoinSp(segs[k]) \o <<" ">>

----------------------------------------------------------------------------
\* C1: a start_recording invoked while a session is running fails with
\* AlreadyRunningError (and so opens no stream and creates no worker).
C1_StartWhileRunningRejected ==
    (lastCall.op = "start" /\ lastCall.active)
        => lastCall.result = "AlreadyRunningError"

\* C2: a stop_recording invoked while no session is active (nothing started
\* yet, or the session already stopped) is rejected with NotRunningError.
C2_StopWhileIdleRejected ==
    (lastCall.op = "stop" /\ lastCall.idle)
        => lastCall.result = "NotRunningError"

\* C3: in every reachable state at most one audio stream is open and
\* capturing and at most one worker is running.
C3_AtMostOneSession ==
    /\ Cardinality(CapturingStreams) <= 1
    /\ Cardinality(RunningWorkers) <= 1

\* C4: whenever a stop_recording has completed, no audio stream is still
\* open and capturing and no worker is still running.
C4_StopClosesEverything ==
    (lastCall.op = "stop" /\ lastCall.result = "returned")
        => (CapturingStreams = {} /\ RunningWorkers = {})

\* C5: under fair scheduling of the workers, a stop_recording that has set
\* the running flag and waits for its worker eventually returns, and it
\* returns only after that worker has left its loop and emitted the summary
\* signal.
C5_StopCompletes ==
    /\ (gui = "wait") ~> (gui = "idle")
    /\ [][ (gui = "wait" /\ gui' = "idle")
              => /\ threads[audio_thread].pc = "finished"
                 /\ SummariesOf(audio_thread) # <<>> ]_vars

\* C6: once the stop_recording of a session has returned, the session's worker
\* has emitted the summary signal exactly once, as the last of its signals,
\* and its text is the summary of the payload of the worker's last
\* transcription signal (of the empty transcript if there was none).
C6_OneSummaryPerStop ==
    (lastCall.op = "stop" /\ lastCall.result = "returned" /\ audio_thread # 0)
        => LET sig == SignalsOf(audio_thread)
               trs == TranscriptionsOf(audio_thread)
               last == IF trs = <<>> THEN <<>> ELSE trs[Len(trs)].text
           IN  /\ Len(SummariesOf(audio_thread)) = 1
               /\ sig[Len(sig)].signal = "summary_signal"
               /\ sig[Len(sig)].text = generate_summary(last)

\* C7: the frames given to the decoder, in the order they are given, are a
\* prefix of the frames pushed onto the queue.
C7_FedIsPrefixOfPushed ==
    /\ Len(fed) <= Len(pushed)
    /\ \A i \in 1 .. Len(fed) : fed[i].f = pushed[i]

\* C8: every summary a worker emits is the fixed sentinel when its transcript
\* has fewer than 10 words, whatever the words are, and otherwise begins with
\* the label "Summary: " and is not the sentinel.
C8_SummaryThreshold ==
    \A w \in Workers :
        \A i \in 1 .. Len(SummariesOf(w)) :
            LET text == SummariesOf(w)[i].text
            IN  IF WordCount(threads[w].segments) < 10
                THEN text = <<"Summary:", " ", "Not", " ", "enough", " ", "data",
                              " ", "for", " ", "summarization.">>
                ELSE /\ Len(text) > 2
                     /\ SubSeq(text, 1, 2) = <<"Summary:", " ">>
                     /\ text # Sentinel

\* A worker has summarised a transcript of at least 10 words and another
\* worker one of fewer than 10.
C8_Witness ==
    \E w, v \in Workers :
        /\ SummariesOf(w) # <<>> /\ WordCount(threads[w].segments) >= 10
        /\ SummariesOf(v) # <<>> /\ WordCount(threads[v].segments) < 10

\* C9: after k utterance boundaries with texts s1..sk a worker's transcript
\* is s1 + " " + ... + sk + " ", it has emitted exactly k transcription
\* signals, and the i-th carries s1 + " " + ... + si + " ".
C9_TranscriptIsConcatenation ==
    \A w \in Workers :
        LET segs == threads[w].segments
            trs == TranscriptionsOf(w)
        IN  /\ threads[w].transcription = Concatenated(segs, Len(segs))
            /\ Len(trs) = Len(segs)
            /\ \A i \in 1 .. Len(trs) : trs[i].text = Concatenated(segs, i)

\* A worker has seen two boundaries, the first "hello world", the second not
\* empty.
C9_Witness ==
    \E w \in Workers :
        /\ Len(threads[w].segments) = 2
        /\ threads[w].segments[1] = <<"hello", "world">>
        /\ threads[w].segments[2] # <<>>
        /\ Len(TranscriptionsOf(w)) = 2

\* C10: if every frame of segment A was captured before every frame of
\* segment B, then A's transcription signal is emitted before B's.
C10_SegmentsInCaptureOrder ==
    \A i, j \in 1 .. Len(emitted) :
        ( /\ emitted[i].signal = "transcription_signal"
          /\ emitted[j].signal = "transcription_signal"
          /\ \A a \in 1 .. Len(emitted[i].frames) :
                \A b \in 1 .. Len(emitted[j].frames) :
                    emitted[i].frames[a] < emitted[j].frames[b] )
            => i < j

\* C11: a decode error is contained in the worker: no worker is ended by an
\* exception of AcceptWaveform (it skips the frame and stays in its loop).
C11_DecodeErrorContained ==
    \A w \in Workers : threads[w].pc # "raised"

\* C12: after a start_recording that was invoked with no session active and
\* failed, no audio stream is open and no worker is running.
C12_FailedStartLeavesIdle ==
    (lastCall.op = "start" /\ lastCall.idle /\ lastCall.result # "returned")
        => (OpenStreams = {} /\ RunningWorkers = {})

\* Sequence p is an initial part of sequence q.
IsPrefix(p, q) == Len(p) <= Len(q) /\ SubSeq(q, 1, Len(p)) = p

\* C13: the payload of every transcription signal of a worker properly extends
\* the payload of its previous one, and no step shortens or rewrites a
\* worker's transcript.
C13_TranscriptAppendOnly ==
    /\ [](\A w \in Workers :
            LET trs == TranscriptionsOf(w)
            IN  \A i \in 1 .. Len(trs) - 1 :
                    /\ IsPrefix(trs[i].text, trs[i + 1].text)
                    /\ Len(trs[i].text) < Len(trs[i + 1].text))
    /\ [][ \A w \in Workers :
              IsPrefix(threads[w].transcription, threads'[w].transcription) ]_vars

\* A worker has emitted two transcription signals, the second after a
\* boundary with words.
C13_Witness ==
    \E w \in Workers :
        /\ Len(TranscriptionsOf(w)) = 2
        /\ threads[w].segments[2] # <<>>

\* C14: whenever a stream is capturing the callback can run at once, whatever
\* the queue holds and whatever the workers are doing (the model's frame
\* budget aside), and a callback step appends exactly the new frame at the
\* tail of the queue and changes nothing else.
C14_CallbackNeverBlocksNorDrops ==
    /\ []((CapturingStreams # {} /\ Len(pushed) < MaxFrames) => ENABLED Driver)
    /\ [][ pushed' # pushed
              => /\ audio_queue' = Append(audio_queue, pushed'[Len(pushed')])
                 /\ pushed' = Append(pushed, pushed'[Len(pushed')])
                 /\ UNCHANGED <<streams, stream, threads, audio_thread, gui,
                                fed, emitted, lastCall>> ]_vars

\* The callback has put a second frame behind one that is still queued while
\* a worker had already been told to stop.
C14_Witness ==
    /\ audio_queue = <<1, 2>>
    /\ \E w \in Workers : ~threads[w].recording
    /\ CapturingStreams # {}

\* C15: once stop() has cleared a worker's recording flag, the worker pops at
\* most one further frame and emits at most one further transcription signal
\* before its summary; frames still queued stay queued.
C15_ExitsAfterCurrentIteration ==
    \A w \in Workers :
        /\ threads[w].latePops <= 1
        /\ threads[w].lateSignals <= 1
        /\ threads[w].recording => (threads[w].latePops = 0 /\ threads[w].lateSignals = 0)
        /\ (threads[w].pc \in {"summary", "finished"}) => ~threads[w].recording

\* The only worker ever started has finished after popping one frame and
\* emitting one transcription signal past the stop, and a frame is left in
\* the queue.
C15_Witness ==
    /\ Len(threads) = 1
    /\ threads[1].pc = "finished"
    /\ threads[1].latePops = 1
    /\ threads[1].lateSignals = 1
    /\ audio_queue # <<>>

\* C16: every thread a start creates begins with an empty transcript, an
\* empty decoder and recording true, and the text a worker emits holds
\* exactly the words of the boundaries that worker itself has seen: a worker
\* that has seen none has an empty transcript and, if it has summarised, the
\* summary of the empty transcript.
C16_FreshSessionState ==
    /\ [][ Len(threads') > Len(threads)
              => LET t == threads'[Len(threads')]
                 IN  /\ t.transcription = <<>>
                     /\ t.utterance = <<>>
                     /\ t.data = 0
                     /\ t.recording ]_vars
    /\ [](\A w \in Workers :
            /\ Len(split(threads[w].transcription)) = WordCount(threads[w].segments)
            /\ \A i \in 1 .. Len(SignalsOf(w)) :
                  SignalsOf(w)[i].signal = "transcription_signal"
                      => Len(split(SignalsOf(w)[i].text))
                            <= WordCount(threads[w].segments)
            /\ (threads[w].segments = <<>> /\ SummariesOf(w) # <<>>)
                  => SummariesOf(w)[1].text = Sentinel)

\* A second session has been started after a first one produced words, and
\* its worker has finished without seeing a boundary.
C16_Witness ==
    /\ Len(threads) = 2
    /\ WordCount(threads[1].segments) > 0
    /\ threads[1].pc = "finished"
    /\ threads[2].segments = <<>>
    /\ threads[2].pc = "finished"

\* C17: when a session is started with no other session active, the frame
\* queue is empty.
C17_QueueEmptyAtSessionStart ==
    [][ (Len(threads') > Len(threads) /\ SessionIdle) => audio_queue = <<>> ]_vars

\* C18: an iteration that finds the queue empty changes nothing but the
\* worker's position, and an iteration whose frame completes no boundary
\* leaves the transcript alone and emits nothing: the frame, already taken
\* off the queue, goes into the decoder's pending utterance.
C18_NoOutputWithoutBoundary ==
    [][ \A w \in Workers :
          /\ (threads[w].pc = "empty" /\ threads'[w].pc = "while")
                => /\ UNCHANGED <<audio_queue, emitted, fed>>
                   /\ threads'[w].transcription = threads[w].transcription
                   /\ threads'[w].utterance = threads[w].utterance
          /\ ( /\ threads[w].pc = "accept"
               /\ threads'[w].pc = "while"
               /\ threads'[w].segments = threads[w].segments )
                => /\ UNCHANGED <<audio_queue, emitted>>
                   /\ threads'[w].transcription = threads[w].transcription
                   /\ threads'[w].utterance =
                          Append(threads[w].utterance, threads[w].data)
                   /\ threads[w].data \notin { audio_queue[i] : i \in 1 .. Len(audio_queue) }
      ]_vars

\* Two frames have gone into a worker's decoder without a boundary, and
\* nothing has been emitted.
C18_Witness ==
    /\ emitted = <<>>
    /\ \E w \in Workers :
          /\ Len(threads[w].utterance) = 2
          /\ threads[w].transcription = <<>>
          /\ threads[w].pc = "while"

\* C19: a worker that is about to execute audio_queue.get() finds the queue
\* non-empty.
C19_GetNeverBlocks ==
    \A w \in Workers : threads[w].pc = "get" => audio_queue # <<>>

====
